---------------------------- MODULE Spec2Model ----------------------------
(***************************************************************************)
(* A model of the test-beam plotting code: src/plotting.py (histogram      *)
(* binning, heat-map colouring, multi-panel layout, significant-digit      *)
(* formatting) and src/fast_testbeam_analysis.py (plot_manager).           *)
(*                                                                         *)
(* Numbers that get formatted are decimal floats [m, e, r]: the value is   *)
(* m * 10^e, and r in {-1, 0, 1} is the sign of (the IEEE double nearest   *)
(* to m * 10^e) minus (m * 10^e), which is what decides a rounding tie in  *)
(* CPython's correctly rounded float formatting.                           *)
(* Strings are sequences of one-character strings (format_latex adds two   *)
(* longer pieces); Join gives the string itself.                           *)
(***************************************************************************)
EXTENDS Integers, Sequences, FiniteSets, TLC

-----------------------------------------------------------------------------
(* Small arithmetic and sequence helpers.                                  *)

Abs(n) == IF n < 0 THEN -n ELSE n

Sign(n) == IF n < 0 THEN -1 ELSE IF n > 0 THEN 1 ELSE 0

RECURSIVE Pow10(_)
Pow10(k) == IF k <= 0 THEN 1 ELSE 10 * Pow10(k - 1)

RECURSIVE NatDigits(_)
\* The decimal digits of a natural number, most significant first.
NatDigits(n) == IF n < 10 THEN <<n>> ELSE NatDigits(n \div 10) \o <<n % 10>>

Zeros(k) == [i \in 1..k |-> 0]

RECURSIVE StripZeros(_)
\* Trailing zeros removed, at least one digit kept.
StripZeros(ds) ==
    IF Len(ds) > 1 /\ ds[Len(ds)] = 0 THEN StripZeros(SubSeq(ds, 1, Len(ds) - 1))
    ELSE ds

DigitChars == <<"0", "1", "2", "3", "4", "5", "6", "7", "8", "9">>

Chars(ds) == [i \in 1..Len(ds) |-> DigitChars[ds[i] + 1]]

RECURSIVE Join(_)
Join(cs) == IF cs = <<>> THEN "" ELSE Head(cs) \o Join(Tail(cs))

Has(cs, c) == \E i \in 1..Len(cs) : cs[i] = c

\* str(n) of a Python int.
IntChars(n) == (IF n < 0 THEN <<"-">> ELSE <<>>) \o Chars(NatDigits(Abs(n)))

-----------------------------------------------------------------------------
(* Decimal floats and CPython's float formatting.                          *)

Dec(m, e, r) == [m |-> m, e |-> e, r |-> r]

IsZero(x) == x.m = 0

\* floor(log10(|x|)) for x # 0.
FloorLog10(x) == Len(NatDigits(Abs(x.m))) - 1 + x.e

\* The digits of the integer nearest to |x| * 10^j; a tie goes the way the
\* double lies, and to the even neighbour when the double is exact.
RoundAbs(x, j) ==
    LET a == Abs(x.m)
        s == x.e + j
    IN  IF a = 0 THEN <<0>>
        ELSE IF s >= 0 THEN NatDigits(a) \o Zeros(s)
        ELSE IF -s > Len(NatDigits(a)) THEN <<0>>
        ELSE LET p  == Pow10(-s)
                 q  == a \div p
                 rm == a % p
                 rr == x.r * Sign(x.m)
                 up == \/ 2 * rm > p
                       \/ /\ 2 * rm = p
                          /\ \/ rr > 0
                             \/ rr = 0 /\ q % 2 = 1
             IN  NatDigits(IF up THEN q + 1 ELSE q)

\* format(x, ".{prec}f")
FormatF(x, prec) ==
    LET k   == RoundAbs(x, prec)
        pad == IF Len(k) < prec + 1 THEN Zeros(prec + 1 - Len(k)) \o k ELSE k
        n   == Len(pad)
    IN  (IF x.m < 0 THEN <<"-">> ELSE <<>>)
        \o Chars(SubSeq(pad, 1, n - prec))
        \o (IF prec > 0 THEN <<".">> \o Chars(SubSeq(pad, n - prec + 1, n)) ELSE <<>>)

\* format(x, ".{prec}g"): prec significant digits, trailing zeros removed,
\* exponential form when the decimal exponent is < -4 or >= prec.
FormatG(x, prec) ==
    IF IsZero(x) THEN <<"0">>
    ELSE
    LET p    == IF prec = 0 THEN 1 ELSE prec
        e0   == FloorLog10(x)
        k    == RoundAbs(x, p - 1 - e0)
        ex   == IF Len(k) > p THEN e0 + 1 ELSE e0
        ds   == StripZeros(SubSeq(k, 1, p))
        sgn  == IF x.m < 0 THEN <<"-">> ELSE <<>>
        n    == Len(ds)
    IN  IF ex < -4 \/ ex >= p
        THEN sgn \o Chars(<<ds[1]>>)
             \o (IF n > 1 THEN <<".">> \o Chars(SubSeq(ds, 2, n)) ELSE <<>>)
             \o <<"e", IF ex < 0 THEN "-" ELSE "+">>
             \o (IF Abs(ex) < 10 THEN <<"0">> ELSE <<>>) \o Chars(NatDigits(Abs(ex)))
        ELSE IF ex >= 0
        THEN sgn
             \o Chars(IF n >= ex + 1 THEN SubSeq(ds, 1, ex + 1)
                      ELSE ds \o Zeros(ex + 1 - n))
             \o (IF n > ex + 1 THEN <<".">> \o Chars(SubSeq(ds, ex + 2, n)) ELSE <<>>)
        ELSE sgn \o <<"0", ".">> \o Chars(Zeros(-ex - 1) \o ds)


-----------------------------------------------------------------------------
(* format_latex and set_significant_digits_str.  A number handed to them   *)
(* is [m, e, r, q]: q is, like r, a tie-break, for the quotient            *)
(* num_val / 10 ** exponent that format_latex formats.  Both return, next  *)
(* to their strings, the operations they applied to their argument (ops)   *)
(* and set_significant_digits_str the branch it took.                      *)

\* num_val / (10 ** exponent)
Mantissa(num_val, exponent) == Dec(num_val.m, num_val.e - exponent, num_val.q)

format_latex(num_val, sig_digits) ==
    LET sd      == IF sig_digits = 0 THEN 3 ELSE sig_digits
        num_str == FormatG(num_val, 3)
    IN  IF Has(num_str, "e")
        THEN LET exponent == FloorLog10(num_val)
                 mantissa == Mantissa(num_val, exponent)
             IN  [str |-> FormatF(mantissa, sd - 1) \o <<"×10$^{">>
                          \o IntChars(exponent) \o <<"}$">>,
                  ops |-> <<"format", "log10", "divide", "format">>]
        ELSE [str |-> num_str, ops |-> <<"format">>]

\* A variant that counts the characters before the point: split(".")[0].
DigitsBeforePoint(cs) ==
    IF Has(cs, ".")
    THEN (CHOOSE i \in 1..Len(cs) : cs[i] = "." /\ \A j \in 1..(i - 1) : cs[j] # ".") - 1
    ELSE 0

\* len(uncertainty_str.split(".")[-1]) if "." in uncertainty_str else 0
DigitsAfterPoint(cs) ==
    IF Has(cs, ".")
    THEN Len(cs) - (CHOOSE i \in 1..Len(cs) :
                        cs[i] = "." /\ \A j \in (i + 1)..Len(cs) : cs[j] # ".")
    ELSE 0

\* Lines 303-323: the uncertainty is known to be nonzero.
MatchPrecision(value, uncertainty) ==
    LET uncertainty_str == FormatG(uncertainty, 3)
    IN  IF Has(uncertainty_str, "e")
        THEN [value_str       |-> format_latex(value, 3).str,
              uncertainty_str |-> format_latex(uncertainty, 3).str,
              branch          |-> "exponential",
              ops             |-> <<"compare", "format">>
                                      \o format_latex(uncertainty, 3).ops]
        ELSE
        LET uncertainty_prec == DigitsAfterPoint(uncertainty_str)
            uncertainty_dec  == IF uncertainty_prec > 0 THEN uncertainty_prec ELSE 0
            uncertainty_dig  == IF uncertainty_prec > 0 THEN 0 ELSE Len(uncertainty_str)
        IN  [value_str       |-> IF uncertainty_dec = 0
                                 THEN IF uncertainty_dig > 0
                                      THEN FormatG(value, uncertainty_dig)
                                      ELSE FormatG(value, 3)
                                 ELSE FormatF(value, uncertainty_dec),
             uncertainty_str |-> uncertainty_str,
             branch          |-> IF uncertainty_dec = 0 THEN "significant"
                                 ELSE "decimals",
             ops             |-> <<"compare", "format">>]

\* A variant without the uncertainty == 0 test of line 300.
set_significant_digits_str_unguarded(value, uncertainty) ==
    MatchPrecision(value, uncertainty)

set_significant_digits_str(value, uncertainty) ==
    IF IsZero(uncertainty)
    THEN [value_str       |-> format_latex(value, 3).str,
          uncertainty_str |-> IntChars(0),
          branch          |-> "zero",
          ops             |-> <<"compare">>]
    ELSE MatchPrecision(value, uncertainty)


-----------------------------------------------------------------------------
(* plot_1d_hist and get_equal_bins.  A sample is a sequence of integers    *)
(* (ADC counts, or any fixed unit).  An argument that may be None is None  *)
(* or Some(x).  An optional step or count is 0 when it is not given: the   *)
(* code tests only its truth value, and None and 0 are both false.         *)

None == [none |-> TRUE]

Some(x) == [some |-> x]

RECURSIVE SeqSum(_)
SeqSum(xs) == IF xs = <<>> THEN 0 ELSE Head(xs) + SeqSum(Tail(xs))

Range(xs) == {xs[k] : k \in DOMAIN xs}

\* np.min, np.max of a non-empty sample
SeqMin(xs) == CHOOSE v \in Range(xs) : \A w \in Range(xs) : v <= w

SeqMax(xs) == CHOOSE v \in Range(xs) : \A w \in Range(xs) : v >= w

\* np.arange(start, stop, step) for step > 0
Arange(start, stop, step) ==
    LET n == IF stop > start THEN (stop - start + step - 1) \div step ELSE 0
    IN  [k \in 1..n |-> start + (k - 1) * step]

\* A variant that stops at max_val: np.arange(min_val, max_val, step).
get_equal_bins_short(min_val, max_val, step) == Arange(min_val, max_val, step)

get_equal_bins(min_val, max_val, step) == Arange(min_val, max_val + step, step)

\* np.histogram(data, bins=edges)[0]: bin b is [edges[b], edges[b+1]), the
\* last bin is closed on the right.
Counts(data, edges) ==
    [b \in 1..(Len(edges) - 1) |->
        Cardinality({k \in DOMAIN data :
            /\ edges[b] <= data[k]
            /\ \/ data[k] < edges[b + 1]
               \/ b = Len(edges) - 1 /\ data[k] = edges[b + 1]})]

\* What a call of plot_1d_hist that returns at line 33 has done.
Skipped ==
    [warned |-> TRUE, raised |-> FALSE, bins |-> None, stats |-> None,
     hist |-> None, legend |-> None, saved |-> <<>>]

\* Lines 35-65.  mean and std stay exact: mean = sum / entry_count and
\* std^2 = (entry_count * sumsq - sum^2) / entry_count^2; the legend holds
\* the two as the arguments handed to set_significant_digits_str.  The
\* counts of bins chosen by matplotlib ('auto', or a number of bins) are not
\* computed.
Histogram(data, ax, bin_num, bin_step, path, out_filename) ==
    LET save == ax = None
        bins == IF bin_num # 0 THEN [kind |-> "count", n |-> bin_num]
                ELSE IF bin_step # 0
                THEN LET min_val == IF SeqMin(data) < 0 THEN SeqMin(data) ELSE 0
                     IN  [kind  |-> "edges",
                          edges |-> get_equal_bins(min_val, SeqMax(data), bin_step)]
                ELSE [kind |-> "auto"]
        entry_count == Len(data)
        sum   == SeqSum(data)
        sumsq == SeqSum([k \in DOMAIN data |-> data[k] * data[k]])
    IN  [warned |-> FALSE,
         raised |-> FALSE,
         bins   |-> bins,
         stats  |-> [entry_count |-> entry_count, sum |-> sum, sumsq |-> sumsq],
         hist   |-> IF bins.kind = "edges"
                    THEN [counts |-> Counts(data, bins.edges)]
                    ELSE [by |-> "matplotlib"],
         legend |-> [entries |-> entry_count,
                     mean    |-> <<sum, entry_count>>,
                     std2    |-> <<entry_count * sumsq - sum * sum,
                                   entry_count * entry_count>>],
         saved  |-> IF save THEN <<path \o "/" \o out_filename>> ELSE <<>>]

\* A variant without the validation of lines 31-33: np.min of an empty
\* sample and np.mean of None raise.
plot_1d_hist_unguarded(data, ax, bin_num, bin_step, title, path, out_filename) ==
    LET name == IF out_filename = "" THEN title ELSE out_filename
    IN  IF data = None \/ (Len(data.some) = 0 /\ bin_num = 0 /\ bin_step # 0)
        THEN [Skipped EXCEPT !.warned = FALSE, !.raised = TRUE]
        ELSE IF Len(data.some) = 0
        THEN [Skipped EXCEPT !.warned = FALSE, !.hist = [by |-> "matplotlib"],
                             !.saved = IF ax = None THEN <<path \o "/" \o name>>
                                       ELSE <<>>]
        ELSE Histogram(data.some, ax, bin_num, bin_step, path, name)

\* out_filename is "" when it is not given.  saved holds the path handed to
\* fig.savefig, before verify_file_extension.
plot_1d_hist(data, ax, bin_num, bin_step, title, path, out_filename) ==
    IF data = None \/ Len(data.some) = 0
    THEN Skipped
    ELSE Histogram(data.some, ax, bin_num, bin_step, path,
                   IF out_filename = "" THEN title ELSE out_filename)

-----------------------------------------------------------------------------
(* plot_heatmap and adjust_colors.  A grid of reals is [num, den]: cell c  *)
(* holds num[c] / den, and every cell is nan when den = 0 (a division of   *)
(* zero counts by zero events).  Limits are numerators over the same den.  *)

rows == 13
cols == 20

\* data[data == 0] = -1: the array is changed in place, the caller's grid too.
adjust_colors(data, log) ==
    [data       |-> [data EXCEPT !.num = [c \in DOMAIN data.num |->
                        IF data.den # 0 /\ data.num[c] = 0 THEN -data.den
                        ELSE data.num[c]]],
     cmap       |-> [name |-> "jet", under |-> "white"],
     colorscale |-> IF log THEN [norm |-> "LogNorm"] ELSE None]

SetMin(S) == CHOOSE v \in S : \A w \in S : v <= w

SetMax(S) == CHOOSE v \in S : \A w \in S : v >= w

\* matplotlib's colour limits for imshow(data, vmin, vmax, norm): a limit that
\* is not given is scaled from the data, by LogNorm from the positive cells.
ColourLimits(data, v_min, v_max, log) ==
    LET vals == {data.num[c] : c \in DOMAIN data.num}
        used == IF log THEN {v \in vals : v > 0} ELSE vals
    IN  [vmin |-> IF v_min # None THEN Some(v_min.some * data.den)
                  ELSE IF data.den = 0 \/ used = {} THEN None
                  ELSE Some(SetMin(used)),
         vmax |-> IF v_max # None THEN Some(v_max.some * data.den)
                  ELSE IF data.den = 0 \/ used = {} THEN None
                  ELSE Some(SetMax(used))]

\* How matplotlib colours a cell: "under" and "over" outside the limits,
\* "bad" for nan and, on a logarithmic scale, for a cell <= 0.
CellColour(data, c, lim, log) ==
    IF data.den = 0 \/ (log /\ data.num[c] <= 0) THEN "bad"
    ELSE IF lim.vmin # None /\ data.num[c] < lim.vmin.some THEN "under"
    ELSE IF lim.vmax # None /\ data.num[c] > lim.vmax.some THEN "over"
    ELSE "gradient"

\* Lines 164-186.  both is what imshow does when it gets a norm together with
\* vmin or vmax: "raise" (matplotlib 3.5 and later) or "accept" (before).
plot_heatmap(data, fig, ax, log, title, path, out_filename, v_min, v_max, both) ==
    LET save   == fig = None \/ ax = None
        name   == IF out_filename = "" THEN title ELSE out_filename
        adj    == adjust_colors(data, log)
        raised == log /\ (v_min # None \/ v_max # None) /\ both = "raise"
        lim    == ColourLimits(adj.data, v_min, v_max, log)
    IN  IF raised
        THEN [raised |-> TRUE, data |-> adj.data, im |-> None, saved |-> <<>>]
        ELSE [raised |-> FALSE,
              data   |-> adj.data,
              im     |-> [cmap   |-> adj.cmap,
                          norm   |-> adj.colorscale,
                          lim    |-> lim,
                          colour |-> [c \in DOMAIN data.num |->
                                        CellColour(adj.data, c, lim, log)]],
              saved  |-> IF save THEN <<path \o "/" \o name>> ELSE <<>>]

-----------------------------------------------------------------------------
(* The dataset and its aggregation.  A dataset is a sequence of hit rows   *)
(* [event_id, plane, channel, amplitude, shower_energy].  filter_df,       *)
(* unique_df, get_layer_energies, calc_freq and the run parameters belong  *)
(* to modules of the repository that are not among the sources at hand.    *)

RESULTS_DIR == "results"
RUN_NUM == 1

\* run_params.RESULTS_DIR + f"/Run {run_params.RUN_NUM}/"
RunPath == RESULTS_DIR \o "/Run " \o Join(IntChars(RUN_NUM)) \o "/"

\* filter_df(df, planes=..., channels=...): the rows of a plane, and of a
\* channel when one is given, in their order.
filter_df(df, planes, channels) ==
    SelectSeq(df, LAMBDA row : /\ row.plane = planes
                               /\ channels = None \/ row.channel = channels.some)

RECURSIVE unique_df(_)
\* unique_df: duplicate rows dropped, the first of each kept.
unique_df(rws) ==
    IF rws = <<>> THEN <<>>
    ELSE LET front == unique_df(SubSeq(rws, 1, Len(rws) - 1))
             last  == rws[Len(rws)]
         IN  IF \E k \in DOMAIN front : front[k] = last THEN front
             ELSE Append(front, last)

\* get_layer_energies: the amplitude of every hit of the layer.
get_layer_energies(df, layer_num) ==
    LET hits == filter_df(df, layer_num, None)
    IN  [k \in DOMAIN hits |-> hits[k].amplitude]

\* calc_freq: the number of hits of each channel position of the 13 x 20 grid.
calc_freq(channel_hits) ==
    [c \in 0..(rows * cols - 1) |->
        Cardinality({k \in DOMAIN channel_hits : channel_hits[k] = c})]

\* A variant without unique_df: one value per hit row.
ShowerEnergiesPerHit(df) == [k \in DOMAIN df |-> df[k].shower_energy]

\* Lines 119-120: the shower energies handed to the histogram.
ShowerEnergies(df) ==
    LET showers == unique_df([k \in DOMAIN df |->
                       [event_id |-> df[k].event_id,
                        shower_energy |-> df[k].shower_energy]])
    IN  [k \in DOMAIN showers |-> showers[k].shower_energy]

\* Lines 102-103.
ChannelEnergies(df, pad_num, layer_num) ==
    LET channel_df == filter_df(df, layer_num, Some(pad_num))
    IN  [k \in DOMAIN channel_df |-> channel_df[k].amplitude]

\* A variant that counts the rows: len(df[EVENT_ID_COL].to_numpy()).
NumEventsPerHit(df) == Len(df)

\* Line 212: len(np.unique(df[EVENT_ID_COL].to_numpy()))
NumEvents(df) == Cardinality({df[k].event_id : k \in DOMAIN df})

\* Lines 225-229: the frequency grid of a layer.
ChannelFrequency(df, layer) ==
    LET channel_data == filter_df(df, layer, None)
        uniq         == unique_df([k \in DOMAIN channel_data |->
                            [event_id |-> channel_data[k].event_id,
                             channel  |-> channel_data[k].channel]])
        channel_hits == [k \in DOMAIN uniq |-> uniq[k].channel]
    IN  [num |-> calc_freq(channel_hits), den |-> NumEvents(df)]

\* A variant that puts every layer on the slot of its index.
PanelSlotPlain(i) == i

\* Lines 136-138 and 222-224: the panel of the i-th layer, i from 0.
PanelSlot(i) == IF i >= 8 THEN i + 1 ELSE i

\* plt.subplots(3, 4): 12 panels, none drawn on, none removed.
Panels == 12

NewFigure == [panel |-> [p \in 0..(Panels - 1) |-> None], removed |-> {}]

\* Lines 249-251: per layer, the sample count, sum and sum of squares that
\* give its mean and the standard error of the mean (nan for no hits).
LongitudinalProfile(df, layers) ==
    [k \in DOMAIN layers |->
        LET layer_data == get_layer_energies(df, layers[k])
        IN  [n     |-> Len(layer_data),
             sum   |-> SeqSum(layer_data),
             sumsq |-> SeqSum([x \in DOMAIN layer_data |->
                                 layer_data[x] * layer_data[x]])]]

-----------------------------------------------------------------------------
(* State.                                                                  *)

VARIABLES
    callPc,     \* "idle", "call" or "returned": a direct call of one function
    args,       \* the function called and its arguments
    ret,        \* what the call returned, and what it did
    LAYERS,     \* run_params.LAYERS
    CHANNELS,   \* run_params.CHANNELS
    df,         \* the dataset handed to plot_manager
    pc,         \* where plot_manager is: "idle" when it is not running
    i,          \* the index of the layer loop under way, from 0
    j,          \* the index of the channel loop under way, from 0
    freq,       \* the frequency grid of plot_channel_frequency
    im,         \* the image of the last heat map drawn
    freqFig,    \* the figure of plot_channel_frequency
    energyFig,  \* the figure of plot_all_layers_energy_dist
    profile,    \* what plot_average_longitudinal_profile plotted
    hists,      \* the calls of plot_1d_hist made, with what each did
    saved       \* the files written, in order

callVars == <<callPc, args, ret>>

configVars == <<LAYERS, CHANNELS, df>>

managerVars == <<pc, i, j, freq, im, freqFig, energyFig, profile, hists, saved>>

vars == <<callVars, configVars, managerVars>>

\* plot_manager is not running.
ManagerIdle ==
    /\ LAYERS = <<>>
    /\ CHANNELS = <<>>
    /\ df = <<>>
    /\ pc = "idle"
    /\ i = 0
    /\ j = 0
    /\ freq = None
    /\ im = None
    /\ freqFig = None
    /\ energyFig = None
    /\ profile = None
    /\ hists = <<>>
    /\ saved = <<>>

\* No function is called directly.
CallIdle ==
    /\ callPc = "idle"
    /\ args = None
    /\ ret = None

-----------------------------------------------------------------------------
(* Calls of set_significant_digits_str and format_latex.                   *)

MaxUncMant == 30
NegExp == 7
MaxExp == 2
MaxSig == 3

\* The tie-breaks a mantissa can have: a rounding tie needs a last nonzero
\* digit 5.
TieBreaks(m) ==
    LET ds == StripZeros(NatDigits(Abs(m)))
    IN  IF m # 0 /\ ds[Len(ds)] = 5 THEN {-1, 0, 1} ELSE {0}

Numbers(mants) ==
    {[m |-> m, e |-> e, r |-> r, q |-> q] :
        <<m, e, r, q>> \in {t \in mants \X (-NegExp..MaxExp) \X {-1, 0, 1} \X {-1, 0, 1} :
                               t[3] \in TieBreaks(t[1]) /\ t[4] \in TieBreaks(t[1])}}

ValueMants == {0, 5, 123, -123, 2345, 12345, 9995}

UncMants == (0..MaxUncMant) \cup {120, 456, 995, 9995}

\* 12.345 and 12345.0 as doubles: the double nearest 12.345 lies above it.
Value12_345 == [m |-> 12345, e |-> -3, r |-> 1, q |-> 1]
Value12345 == [m |-> 12345, e |-> 0, r |-> 0, q |-> 1]
Unc0_12 == [m |-> 12, e |-> -2, r |-> 0, q |-> 0]
Unc456 == [m |-> 456, e |-> 0, r |-> 0, q |-> 0]

InitFmt ==
    /\ callPc = "call"
    /\ \/ \E v \in Numbers(ValueMants), u \in Numbers(UncMants) :
            args = [fn |-> "set_significant_digits_str", value |-> v,
                       uncertainty |-> u]
       \/ \E v \in Numbers(ValueMants), sd \in 0..MaxSig :
            args = [fn |-> "format_latex", num_val |-> v, sig_digits |-> sd]
    /\ ret = None
    /\ ManagerIdle

CallSetSignificantDigitsStr ==
    /\ callPc = "call"
    /\ args.fn = "set_significant_digits_str"
    /\ ret' = set_significant_digits_str(args.value, args.uncertainty)
    /\ callPc' = "returned"
    /\ UNCHANGED <<args, configVars, managerVars>>

CallFormatLatex ==
    /\ callPc = "call"
    /\ args.fn = "format_latex"
    /\ ret' = format_latex(args.num_val, args.sig_digits)
    /\ callPc' = "returned"
    /\ UNCHANGED <<args, configVars, managerVars>>

NextFmt == CallSetSignificantDigitsStr \/ CallFormatLatex

SpecFmt == InitFmt /\ [][NextFmt]_vars


-----------------------------------------------------------------------------
(* Calls of plot_1d_hist.                                                  *)

MaxLen == 3
MaxAbs == 4
MaxStep == 3

RECURSIVE SeqsUpTo(_, _)
\* The sequences over S of length at most n.
SeqsUpTo(S, n) ==
    IF n = 0 THEN {<<>>}
    ELSE LET shorter == SeqsUpTo(S, n - 1)
         IN  shorter \cup {Append(xs, v) : xs \in {ys \in shorter : Len(ys) = n - 1},
                                           v \in S}

InitHist ==
    /\ callPc = "call"
    /\ \E data \in {None} \cup {Some(xs) : xs \in SeqsUpTo(-MaxAbs..MaxAbs, MaxLen)},
          ax \in {None, [axes |-> 0]},
          bin_num \in {0, 2},
          bin_step \in 0..MaxStep :
            args = [fn |-> "plot_1d_hist", data |-> data, ax |-> ax,
                    bin_num |-> bin_num, bin_step |-> bin_step,
                    title |-> "Histogram", path |-> "./", out_filename |-> ""]
    /\ ret = None
    /\ ManagerIdle

CallPlot1dHist ==
    /\ callPc = "call"
    /\ args.fn = "plot_1d_hist"
    /\ ret' = plot_1d_hist(args.data, args.ax, args.bin_num, args.bin_step,
                           args.title, args.path, args.out_filename)
    /\ callPc' = "returned"
    /\ UNCHANGED <<args, configVars, managerVars>>

NextHist == CallPlot1dHist

SpecHist == InitHist /\ [][NextHist]_vars

-----------------------------------------------------------------------------
(* Calls of plot_heatmap.                                                  *)

HeatCells == 3
HeatDen == 2

InitHeat ==
    /\ callPc = "call"
    /\ \E num \in [1..HeatCells -> 0..HeatDen],
          figax \in {None, [axes |-> 0]},
          log \in BOOLEAN,
          v_min \in {None, Some(0), Some(1)},
          v_max \in {None, Some(1)} :
            args = [fn |-> "plot_heatmap", data |-> [num |-> num, den |-> HeatDen],
                    fig |-> figax, ax |-> figax, log |-> log, title |-> "Heatmap",
                    path |-> "./", out_filename |-> "", v_min |-> v_min,
                    v_max |-> v_max]
    /\ ret = None
    /\ ManagerIdle

CallPlotHeatmap ==
    /\ callPc = "call"
    /\ args.fn = "plot_heatmap"
    /\ \E both \in {"raise", "accept"} :
          ret' = plot_heatmap(args.data, args.fig, args.ax, args.log, args.title,
                              args.path, args.out_filename, args.v_min, args.v_max,
                              both)
    /\ callPc' = "returned"
    /\ UNCHANGED <<args, configVars, managerVars>>

NextHeat == CallPlotHeatmap

SpecHeat == InitHeat /\ [][NextHeat]_vars

-----------------------------------------------------------------------------
(* plot_manager: one action per chart function it calls, and per pass of   *)
(* the loops of those.  An exception leaves plot_manager: pc = "aborted".  *)

Num(n) == Join(IntChars(n))

\* plot_shower_energy_dist, lines 118-124
PlotShowerEnergyDist ==
    /\ pc = "shower"
    /\ LET shower_energies == ShowerEnergies(df)
           r == plot_1d_hist(Some(shower_energies), None, 0, 100,
                             "Total energy distribution (showers)", RunPath,
                             "Shower_energy_distribution.png")
       IN  /\ hists' = Append(hists, [fn   |-> "plot_shower_energy_dist",
                                      data |-> shower_energies, did |-> r])
           /\ saved' = saved \o r.saved
           /\ pc' = IF r.raised THEN "aborted" ELSE "profile"
    /\ UNCHANGED <<callVars, configVars, i, j, freq, im, freqFig, energyFig, profile>>

\* plot_average_longitudinal_profile, lines 242-256
PlotAverageLongitudinalProfile ==
    /\ pc = "profile"
    /\ profile' = LongitudinalProfile(df, LAYERS)
    /\ saved' = Append(saved, RunPath \o "/" \o "Average_Longitudinal_Profile")
    /\ pc' = "frequency"
    /\ i' = 0
    /\ freqFig' = NewFigure
    /\ UNCHANGED <<callVars, configVars, j, freq, im, energyFig, hists>>

\* plot_channel_frequency, lines 221-229: the grid of the i-th layer
FrequencyGrid ==
    /\ pc = "frequency"
    /\ i < Len(LAYERS)
    /\ freq' = ChannelFrequency(df, LAYERS[i + 1])
    /\ pc' = "heatmap"
    /\ UNCHANGED <<callVars, configVars, i, j, im, freqFig, energyFig, profile,
                   hists, saved>>

\* plot_channel_frequency, lines 230-231: ax[ax_num] raises IndexError
\* beyond the 12 panels
FrequencyHeatmap ==
    /\ pc = "heatmap"
    /\ LET ax_num == PanelSlot(i)
       IN  IF ax_num >= Panels
           THEN /\ pc' = "aborted"
                /\ UNCHANGED <<i, freq, im, freqFig, saved>>
           ELSE LET r == plot_heatmap(freq, [figure |-> "frequency"],
                                      [axes |-> ax_num], FALSE, "Heatmap", RunPath,
                                      "", Some(0), Some(1), "raise")
                IN  /\ freq' = r.data
                    /\ im' = r.im
                    /\ freqFig' = [freqFig EXCEPT !.panel[ax_num] =
                                      [layer |-> LAYERS[i + 1], index |-> i,
                                       title |-> "Layer " \o Num(LAYERS[i + 1])]]
                    /\ saved' = saved \o r.saved
                    /\ i' = i + 1
                    /\ pc' = "frequency"
    /\ UNCHANGED <<callVars, configVars, j, energyFig, profile, hists>>

\* plot_channel_frequency, lines 233-239: im is unbound when no layer was
\* drawn
FrequencySave ==
    /\ pc = "frequency"
    /\ i = Len(LAYERS)
    /\ freqFig' = [freqFig EXCEPT !.removed = {8, 11}]
    /\ IF im = None
       THEN /\ pc' = "aborted"
            /\ UNCHANGED <<i, saved, energyFig>>
       ELSE /\ saved' = Append(saved, RunPath \o "/" \o "Channels_frequency_all_layers")
            /\ pc' = "layers"
            /\ i' = 0
            /\ energyFig' = NewFigure
    /\ UNCHANGED <<callVars, configVars, j, freq, im, profile, hists>>

\* plot_all_layers_energy_dist, lines 135-140, and plot_layer_energy_dist
LayerEnergyDist ==
    /\ pc = "layers"
    /\ i < Len(LAYERS)
    /\ LET ax_num == PanelSlot(i)
           layer  == LAYERS[i + 1]
       IN  IF ax_num >= Panels
           THEN /\ pc' = "aborted"
                /\ UNCHANGED <<i, energyFig, hists, saved>>
           ELSE LET layer_energies == get_layer_energies(df, layer)
                    r == plot_1d_hist(Some(layer_energies), [axes |-> ax_num], 0, 10,
                             "Total energy distribution - layer " \o Num(layer),
                             RunPath,
                             "Layer_" \o Num(layer) \o "_energy_distribution.png")
                IN  /\ hists' = Append(hists, [fn |-> "plot_layer_energy_dist",
                                               layer |-> layer,
                                               data |-> layer_energies, did |-> r])
                    /\ saved' = saved \o r.saved
                    /\ energyFig' = [energyFig EXCEPT !.panel[ax_num] =
                                        [layer |-> layer, index |-> i,
                                         title |-> "Layer " \o Num(layer)]]
                    /\ i' = i + 1
                    /\ pc' = IF r.raised THEN "aborted" ELSE "layers"
    /\ UNCHANGED <<callVars, configVars, j, freq, im, freqFig, profile>>

\* plot_all_layers_energy_dist, lines 142-146
LayersSave ==
    /\ pc = "layers"
    /\ i = Len(LAYERS)
    /\ energyFig' = [energyFig EXCEPT !.removed = {8, 11}]
    /\ saved' = Append(saved, RunPath \o "/" \o "Energy_dist_all_layers")
    /\ pc' = "channels"
    /\ i' = 0
    /\ j' = 0
    /\ UNCHANGED <<callVars, configVars, freq, im, freqFig, profile, hists>>

\* plot_manager, lines 24-27, and plot_channel_energy_dist
ChannelEnergyDist ==
    /\ pc = "channels"
    /\ i < Len(LAYERS)
    /\ j < Len(CHANNELS)
    /\ LET layer   == LAYERS[i + 1]
           channel == CHANNELS[j + 1]
           channel_energies == ChannelEnergies(df, channel, layer)
           r == plot_1d_hist(Some(channel_energies), None, 0, 1,
                    "Channel " \o Num(channel) \o " Layer " \o Num(layer),
                    RunPath \o "Energy per channel/Layer " \o Num(layer) \o "/",
                    "Channel_" \o Num(channel) \o "_layer_" \o Num(layer)
                        \o "_energy_distribution.png")
       IN  /\ hists' = Append(hists, [fn |-> "plot_channel_energy_dist",
                                      layer |-> layer, channel |-> channel,
                                      data |-> channel_energies, did |-> r])
           /\ saved' = saved \o r.saved
           /\ pc' = IF r.raised THEN "aborted" ELSE "channels"
           /\ IF j + 1 < Len(CHANNELS)
              THEN j' = j + 1 /\ i' = i
              ELSE j' = 0 /\ i' = i + 1
    /\ UNCHANGED <<callVars, configVars, freq, im, freqFig, energyFig, profile>>

\* plot_manager returns when its loops are over
ManagerReturn ==
    /\ pc = "channels"
    /\ i >= Len(LAYERS) \/ Len(CHANNELS) = 0
    /\ pc' = "done"
    /\ UNCHANGED <<callVars, configVars, i, j, freq, im, freqFig, energyFig,
                   profile, hists, saved>>

NextManager ==
    \/ PlotShowerEnergyDist
    \/ PlotAverageLongitudinalProfile
    \/ FrequencyGrid
    \/ FrequencyHeatmap
    \/ FrequencySave
    \/ LayerEnergyDist
    \/ LayersSave
    \/ ChannelEnergyDist
    \/ ManagerReturn

MaxRows == 2
MaxLayers == 12

Events == {1, 2}
Amplitudes == {-3, 5}

\* The shower energy of each event: an event-level value, the same on every
\* row of the event.
ShowerMaps == {[e \in Events |-> IF e = 1 THEN 100 ELSE 50], [e \in Events |-> 100]}

Rows(planes, channels, showerOf) ==
    {[event_id |-> e, plane |-> l, channel |-> c, amplitude |-> a,
      shower_energy |-> showerOf[e]] :
        e \in Events, l \in planes, c \in channels, a \in Amplitudes}

Hit(e, l, c, a, s) ==
    [event_id |-> e, plane |-> l, channel |-> c, amplitude |-> a, shower_energy |-> s]

\* Event 1 with three hits in layer 0 (shower energy 100), event 2 with one
\* (shower energy 50), on four channels.
ScenarioDataset ==
    <<Hit(1, 0, 0, 10, 100), Hit(1, 0, 1, 20, 100), Hit(1, 0, 2, 30, 100),
      Hit(2, 0, 3, 5, 50)>>

\* Event 1 firing channel 0 of layer 0 twice, event 2 firing channel 1 of
\* layer 1 once.
RepeatDataset ==
    <<Hit(1, 0, 0, 5, 100), Hit(1, 0, 0, -3, 100), Hit(2, 1, 1, 5, 50)>>

ManagerStart ==
    /\ pc = "shower"
    /\ i = 0
    /\ j = 0
    /\ freq = None
    /\ im = None
    /\ freqFig = None
    /\ energyFig = None
    /\ profile = None
    /\ hists = <<>>
    /\ saved = <<>>

InitManager ==
    /\ CallIdle
    /\ LAYERS = <<0, 1>>
    /\ CHANNELS = <<0, 1>>
    /\ \/ \E showerOf \in ShowerMaps :
            df \in SeqsUpTo(Rows({0, 1}, {0, 1}, showerOf), MaxRows)
       \/ df \in {ScenarioDataset, RepeatDataset}
    /\ ManagerStart

SpecManager == InitManager /\ [][NextManager]_vars

\* Every number of layers up to MaxLayers, with at most one hit.
InitPanels ==
    /\ CallIdle
    /\ \E n \in 0..MaxLayers : LAYERS = [k \in 1..n |-> k - 1]
    /\ CHANNELS = <<0>>
    /\ \E showerOf \in ShowerMaps :
            df \in SeqsUpTo(Rows({0}, {0}, showerOf), 1)
    /\ ManagerStart

SpecPanels == InitPanels /\ [][NextManager]_vars

\* Direct calls of plot_1d_hist next to runs of plot_manager.
InitBatch == InitHist \/ InitManager

NextBatch == NextHist \/ NextManager

SpecBatch == InitBatch /\ [][NextBatch]_vars

-----------------------------------------------------------------------------
(* Properties of set_significant_digits_str.                               *)

Returned == callPc = "returned" /\ args.fn = "set_significant_digits_str"

\* The number of characters after the decimal point of a rendering.
PlacesAfterPoint(cs) ==
    Cardinality({a \in 1..Len(cs) : \E b \in 1..(a - 1) : cs[b] = "."})

\* The 3-significant-figure rendering of the uncertainty argument.
Rendering == FormatG(args.uncertainty, 3)

\* |x| < 99.5
BelowAbout100(x) ==
    \/ IsZero(x)
    \/ FloorLog10(x) <= 0
    \/ /\ FloorLog10(x) = 1
       /\ IF x.e >= 0 THEN 2 * Abs(x.m) * Pow10(x.e) < 199
          ELSE 2 * Abs(x.m) < 199 * Pow10(-x.e)

PlainDecimals ==
    /\ Returned
    /\ ~IsZero(args.uncertainty)
    /\ ~Has(Rendering, "e")
    /\ PlacesAfterPoint(Rendering) >= 1

\* C3, as amended: for a nonzero uncertainty whose 3-significant-figure
\* rendering is not exponential and has d >= 1 digits after its point, the
\* function returns that rendering as the uncertainty string and the value in
\* fixed point with exactly d digits after its point; value 12.345 with
\* uncertainty 0.12 gives "12.35" and "0.12".
C3_DecimalPlacesMatch ==
    PlainDecimals =>
        /\ ret.uncertainty_str = Rendering
        /\ ~Has(ret.value_str, "e")
        /\ PlacesAfterPoint(ret.value_str) = PlacesAfterPoint(Rendering)
        /\ (args.value = Value12_345 /\ args.uncertainty = Unc0_12) =>
              /\ Join(ret.value_str) = "12.35"
              /\ Join(ret.uncertainty_str) = "0.12"

C3_Witness ==
    /\ PlainDecimals
    /\ args.value = Value12_345
    /\ args.uncertainty = Unc0_12
    /\ Join(ret.value_str) = "12.35"
    /\ ret.branch = "decimals"

\* C3 as stated: the same, with the uncertainty string "0.120" for 12.345
\* and 0.12.
C3_AsStated ==
    PlainDecimals =>
        /\ ret.uncertainty_str = Rendering
        /\ ~Has(ret.value_str, "e")
        /\ PlacesAfterPoint(ret.value_str) = PlacesAfterPoint(Rendering)
        /\ (args.value = Value12_345 /\ args.uncertainty = Unc0_12) =>
              /\ Join(ret.value_str) = "12.35"
              /\ Join(ret.uncertainty_str) = "0.120"

\* C4: for an uncertainty >= 100 whose 3-significant-figure rendering has no
\* decimal point and 3 digits, the value string is in plain, non-exponential
\* form; value 12345 with uncertainty 456 gives "12300".
C4_PlainThreeFigures ==
    ( /\ Returned
      /\ ~BelowAbout100(args.uncertainty)
      /\ ~Has(Rendering, "e")
      /\ ~Has(Rendering, ".")
      /\ Len(Rendering) = 3 ) =>
        /\ ~Has(ret.value_str, "e")
        /\ (args.value = Value12345 /\ args.uncertainty = Unc456) =>
              Join(ret.value_str) = "12300"

\* C5: with uncertainty 0 the function returns (format_latex(value), "0"),
\* having applied nothing but the comparison with 0 to the uncertainty.
C5_ZeroUncertainty ==
    (Returned /\ IsZero(args.uncertainty)) =>
        /\ ret.value_str = format_latex(args.value, 3).str
        /\ Join(ret.uncertainty_str) = "0"
        /\ ret.ops = <<"compare">>

C5_Witness ==
    /\ Returned
    /\ IsZero(args.uncertainty)
    /\ args.value = Value12345
    /\ Join(ret.value_str) = "1.23×10$^{4}$"
    /\ Join(ret.uncertainty_str) = "0"

\* C9: a nonzero uncertainty below 100 whose rendering is not exponential has
\* a decimal point in its rendering, and the value is then formatted with
\* decimal places, never by a count of significant figures.
C9_DecimalsBelow100 ==
    ( /\ Returned
      /\ ~IsZero(args.uncertainty)
      /\ BelowAbout100(args.uncertainty)
      /\ ~Has(Rendering, "e") ) =>
        /\ Has(Rendering, ".")
        /\ ret.branch = "decimals"


-----------------------------------------------------------------------------
(* Properties of plot_1d_hist.                                             *)

FixedStepCall ==
    /\ callPc = "returned"
    /\ args.fn = "plot_1d_hist"
    /\ args.data # None
    /\ Len(args.data.some) > 0
    /\ args.bin_num = 0
    /\ args.bin_step > 0

\* C2: with a non-empty sample and bin_step = w > 0 (no bin_num) the bin
\* edges are strictly increasing, consecutive edges differ by exactly w, the
\* first edge is min(0, sample minimum) (<= 0 when the sample has a value
\* <= 0, else 0) and the last edge is at least the sample maximum.
C2_FixedStepEdges ==
    FixedStepCall =>
        /\ ret.bins.kind = "edges"
        /\ LET edges == ret.bins.edges
               w     == args.bin_step
               data  == args.data.some
               lo    == SeqMin(data)
               hi    == SeqMax(data)
           IN  /\ Len(edges) >= 1
               /\ \A k \in 1..(Len(edges) - 1) :
                     edges[k] < edges[k + 1] /\ edges[k + 1] - edges[k] = w
               /\ edges[1] = IF lo < 0 THEN lo ELSE 0
               /\ (\E k \in DOMAIN data : data[k] <= 0) => edges[1] <= 0
               /\ (\A k \in DOMAIN data : data[k] > 0) => edges[1] = 0
               /\ edges[Len(edges)] >= hi

C2_Witness ==
    /\ FixedStepCall
    /\ args.data = Some(<<-3, 4>>)
    /\ args.bin_step = 2
    /\ ret.bins.edges = <<-3, -1, 1, 3, 5>>


-----------------------------------------------------------------------------
(* Properties of plot_heatmap.                                             *)

HeatmapDrawn ==
    /\ callPc = "returned"
    /\ args.fn = "plot_heatmap"
    /\ ~ret.raised

\* C8: on a grid of non-negative reals every cell that is exactly 0 becomes
\* the sentinel -1 and every other cell keeps its value, the sentinel lies
\* strictly below the lower limit of the colour range, and the zero cells are
\* drawn in the under-range colour.
C8_ZeroCellsUnderRange ==
    HeatmapDrawn =>
        \A c \in DOMAIN args.data.num :
            IF args.data.num[c] = 0
            THEN /\ ret.data.num[c] = -ret.data.den
                 /\ ret.im.lim.vmin # None
                 /\ ret.data.num[c] < ret.im.lim.vmin.some
                 /\ ret.im.colour[c] = "under"
            ELSE ret.data.num[c] = args.data.num[c]


-----------------------------------------------------------------------------
(* Properties of plot_manager.                                             *)

ChannelCalls == SelectSeq(hists, LAMBDA h : h.fn = "plot_channel_energy_dist")

\* The (layer, channel) pairs of LAYERS x CHANNELS in the order of the loops.
AllPairs ==
    [k \in 1..(Len(LAYERS) * Len(CHANNELS)) |->
        <<LAYERS[((k - 1) \div Len(CHANNELS)) + 1],
          CHANNELS[((k - 1) % Len(CHANNELS)) + 1]>>]

\* A direct call of plot_1d_hist with data None or of length 0 has returned.
EmptyCall ==
    /\ callPc = "returned"
    /\ args.fn = "plot_1d_hist"
    /\ args.data = None \/ Len(args.data.some) = 0

\* C1: a call of plot_1d_hist with data None or of length 0, whatever its
\* other arguments, and a call from plot_manager with an empty sample, warns
\* and returns with no bins chosen, no mean or std computed, nothing drawn
\* and nothing saved;
\* plot_manager is never left by an exception, calls plot_channel_energy_dist
\* for the pairs of LAYERS x CHANNELS in order, whatever the earlier calls
\* did, and has called it for every pair when it returns.
C1_EmptySampleSkipped ==
    /\ EmptyCall =>
          /\ ret.warned
          /\ ~ret.raised
          /\ ret.bins = None
          /\ ret.stats = None
          /\ ret.hist = None
          /\ ret.legend = None
          /\ ret.saved = <<>>
    /\ \A k \in DOMAIN hists :
          Len(hists[k].data) = 0 =>
              /\ hists[k].did.warned
              /\ ~hists[k].did.raised
              /\ hists[k].did.bins = None
              /\ hists[k].did.stats = None
              /\ hists[k].did.hist = None
              /\ hists[k].did.saved = <<>>
    /\ pc # "aborted"
    /\ \A k \in DOMAIN ChannelCalls :
          /\ k <= Len(AllPairs)
          /\ <<ChannelCalls[k].layer, ChannelCalls[k].channel>> = AllPairs[k]
    /\ pc = "channels" => Len(ChannelCalls) = i * Len(CHANNELS) + j
    /\ pc = "done" => Len(ChannelCalls) = Len(AllPairs)

\* A finished run in which a pair without hits came before a pair with hits.
C1_Witness ==
    /\ callPc = "idle"
    /\ pc = "done"
    /\ \E a, b \in DOMAIN ChannelCalls :
          /\ a < b
          /\ ChannelCalls[a].data = <<>>
          /\ ChannelCalls[a].did.warned
          /\ ChannelCalls[b].data # <<>>
          /\ ChannelCalls[b].did.saved # <<>>

\* The events of the dataset that fired a channel of a layer.
EventsFiring(layer, channel) ==
    {df[k].event_id : k \in {x \in DOMAIN df : df[x].plane = layer
                                               /\ df[x].channel = channel}}

AllEvents == {df[k].event_id : k \in DOMAIN df}

\* C6: for a non-empty dataset, when the frequency grid of a layer has been
\* computed (and before it is drawn), each cell is the number of distinct
\* events in which that channel fired in that layer over the number of
\* distinct events of the whole dataset, and lies in [0, 1].
C6_ChannelFrequency ==
    (pc = "heatmap" /\ df # <<>>) =>
        /\ freq.den = Cardinality(AllEvents)
        /\ freq.den > 0
        /\ \A c \in DOMAIN freq.num :
              /\ freq.num[c] = Cardinality(EventsFiring(LAYERS[i + 1], c))
              /\ 0 <= freq.num[c]
              /\ freq.num[c] <= freq.den

\* Two events, and a channel fired twice by one of them: frequency 1/2.
C6_Witness ==
    /\ pc = "heatmap"
    /\ df = RepeatDataset
    /\ LAYERS[i + 1] = 0
    /\ freq.num[0] = 1
    /\ freq.den = 2

RECURSIVE FirstSeen(_)
\* The event ids of a dataset in the order in which they first appear.
FirstSeen(rws) ==
    IF rws = <<>> THEN <<>>
    ELSE LET front == FirstSeen(SubSeq(rws, 1, Len(rws) - 1))
             e     == rws[Len(rws)].event_id
         IN  IF e \in Range(front) THEN front ELSE Append(front, e)

EnergyOf(e) == df[CHOOSE k \in DOMAIN df : df[k].event_id = e].shower_energy

\* C7: the histogram of plot_shower_energy_dist gets exactly one shower
\* energy per distinct event_id, however many rows the event has: [100, 50]
\* for event 1 with 3 hits (100) and event 2 with 1 hit (50).
C7_OneEnergyPerEvent ==
    (pc \notin {"idle", "shower"}) =>
        /\ hists[1].fn = "plot_shower_energy_dist"
        /\ Len(hists[1].data) = Cardinality(AllEvents)
        /\ hists[1].data = [k \in DOMAIN FirstSeen(df) |-> EnergyOf(FirstSeen(df)[k])]
        /\ df # <<>> => hists[1].did.stats.entry_count = Cardinality(AllEvents)
        /\ df = ScenarioDataset => hists[1].data = <<100, 50>>

C7_Witness ==
    /\ pc = "profile"
    /\ df = ScenarioDataset
    /\ hists[1].data = <<100, 50>>
    /\ hists[1].did.stats.entry_count = 2

\* The slot the claim gives the layer of index n, from 0.
ClaimedSlot(n) == IF n < 8 THEN n ELSE n + 1

\* What C10 says of one figure: a panel drawn on holds the layer whose index
\* has that slot, no two layers share a panel, and slots 8 and 11 hold none.
PanelsAsClaimed(fig) ==
    fig # None =>
        /\ \A p \in DOMAIN fig.panel :
              fig.panel[p] # None =>
                  /\ p \in 0..11
                  /\ p \notin {8, 11}
                  /\ p = ClaimedSlot(fig.panel[p].index)
                  /\ fig.panel[p].layer = LAYERS[fig.panel[p].index + 1]
        /\ \A p, q \in DOMAIN fig.panel :
              (fig.panel[p] # None /\ fig.panel[q] # None /\ p # q) =>
                  fig.panel[p].layer # fig.panel[q].layer

\* Every layer has its panel once the figure's loop is over.
AllLayersDrawn(fig) ==
    \A n \in 0..(Len(LAYERS) - 1) :
        fig.panel[ClaimedSlot(n)] # None /\ fig.panel[ClaimedSlot(n)].index = n

=============================================================================
